---- MODULE Spec2Model ----
(***************************************************************************)
(* Chunked gene prediction with AugustusPB (cat/augustus_pb.py) and        *)
(* AugustusCGP (cat/augustus_cgp.py): the chunk geometry computed by the   *)
(* two setup jobs and the Toil job graph that they build.                  *)
(***************************************************************************)
EXTENDS Integers, Sequences, FiniteSets, TLC

\* ---- bounds of the model ----
MaxLen == 6
MaxChunkSize == 4
MaxOverlap == 4
MaxChroms == 2
MaxJobs == 2
JobMaxLen == 3
JobMaxChunk == 2
MaxHints == 2
MaxHintPos == 2
MaxHintSeqs == 2

\* ---- fixed data ----
GenomeList == <<"G1", "G2">>
Genomes == {GenomeList[i] : i \in 1..Len(GenomeList)}
PBGenome == "G1"
LinesPerChunk == 2

\* mode, chunksize, overlap, chromSizes: which pipeline runs, args.chunksize, args.overlap
\*     and the sequence lengths (genome_fasta / the chrom_sizes file), by sequence index
\* hints: the records of the hints gff of the single-genome mode: sequence, start, end
\* hintsSubset: per chunk job, the records augustus_pb_chunk sliced out for augustus
\* setupStatus, mergeStatus, chunkStatus, cgpStatus, joinStatus, assignStatus: the Toil
\*     jobs: "none" (not added), "issued", "running", "done", "failed" (for good);
\*     chunkStatus is augustus_pb_chunk in pb and hal2maf in cgp
\* intervals: the intervals dict of augustus_pb.setup (<<>> for an absent key)
\* chunks: the arguments of the chunk jobs in the order setup added them
\* mafChunk, predictions, joinRv, assignRv: the promised return values (0: unfulfilled)
\* joinInput: the list of file ids join_genes was started with
\* joingenesRuns: how often join_genes ran the joingenes pipeline, per genome
\* assignCalls: how often assign_parents was started, per genome
\* fileStore: the job store, a file id being an index; tree: the id of the tree file
\* toil: toil.start is "running", has "returned" or has "raised"
\* exported: what the entry function exported, per genome
VARIABLES mode, chunksize, overlap, chromSizes, hints, hintsSubset,
          setupStatus, intervals, chunks,
          chunkStatus, mafChunk, cgpStatus, predictions,
          mergeStatus, joinStatus, joinInput, joinRv, joingenesRuns,
          assignStatus, assignRv, assignCalls,
          fileStore, tree, toil, exported

vars == <<mode, chunksize, overlap, chromSizes, hints, hintsSubset, setupStatus, intervals, chunks,
          chunkStatus, mafChunk, cgpStatus, predictions, mergeStatus,
          joinStatus, joinInput, joinRv, joingenesRuns, assignStatus, assignRv,
          assignCalls, fileStore, tree, toil, exported>>

args == <<mode, chunksize, overlap, chromSizes, hints>>

\* ---- helpers ----
Min(a, b) == IF a < b THEN a ELSE b

Range(s) == {s[i] : i \in 1..Len(s)}

RECURSIVE Flatten(_)
Flatten(ss) == IF ss = <<>> THEN <<>> ELSE Head(ss) \o Flatten(Tail(ss))

Perms(S) == {p \in [1..Cardinality(S) -> S] : \A i, j \in 1..Cardinality(S) : p[i] = p[j] => i = j}

Chroms == 1..Len(chromSizes)

\* as XRange, but stepping one position further each time
XRangeWideStep(stop, step) ==
    IF step > 0 /\ stop > 0
    THEN [i \in 1..((stop + step) \div (step + 1)) |-> (i - 1) * (step + 1)]
    ELSE <<>>

\* as XRange, but the first offset is step, not 0
XRangeFromStep(stop, step) ==
    IF step > 0 /\ stop > step
    THEN [i \in 1..((stop - 1) \div step) |-> i * step]
    ELSE <<>>

\* xrange(0, stop, step) for step # 0: the start offsets 0, step, 2*step, ... < stop;
\* a negative step yields nothing because 0 is not above stop
XRange(stop, step) ==
    IF step > 0 /\ stop > 0
    THEN [i \in 1..((stop + step - 1) \div step) |-> (i - 1) * step]
    ELSE <<>>

\* as PBWindows, but the stop is not cut at the end of the sequence
PBWindowsNoClip(size, cs, ov) ==
    LET starts == XRange(size, cs - ov)
    IN  [i \in 1..Len(starts) |-> <<starts[i], starts[i] + cs>>]

\* augustus_pb.setup, first loop: [start, min(start + chunksize, chrom_size)] per start
PBWindows(size, cs, ov) ==
    LET starts == XRange(size, cs - ov)
    IN  [i \in 1..Len(starts) |-> <<starts[i], Min(starts[i] + cs, size)>>]

\* as MergeTail, but the interval before the dropped one keeps its stop
MergeTailNoExtend(interval_list, cs) ==
    IF Len(interval_list) < 2 THEN interval_list
    ELSE LET n == Len(interval_list)
         IN  IF 2 * (interval_list[n][2] - interval_list[n][1]) <= cs
             THEN SubSeq(interval_list, 1, n - 1)
             ELSE interval_list

\* as MergeTail, but a final interval of exactly half a chunk is kept
MergeTailStrict(interval_list, cs) ==
    IF Len(interval_list) < 2 THEN interval_list
    ELSE LET n == Len(interval_list)
         IN  IF 2 * (interval_list[n][2] - interval_list[n][1]) < cs
             THEN [i \in 1..(n - 1) |->
                      IF i = n - 1 THEN <<interval_list[i][1], interval_list[n][2]>>
                      ELSE interval_list[i]]
             ELSE interval_list

\* as MergeTail, but the stop of the first interval is the one that is set
MergeTailExtendFirst(interval_list, cs) ==
    IF Len(interval_list) < 2 THEN interval_list
    ELSE LET n == Len(interval_list)
         IN  IF 2 * (interval_list[n][2] - interval_list[n][1]) <= cs
             THEN [i \in 1..(n - 1) |->
                      IF i = 1 THEN <<interval_list[i][1], interval_list[n][2]>>
                      ELSE interval_list[i]]
             ELSE interval_list

\* augustus_pb.setup, second loop: absorb a final interval of at most half a chunk
MergeTail(interval_list, cs) ==
    IF Len(interval_list) < 2 THEN interval_list
    ELSE LET n == Len(interval_list)
             last_start == interval_list[n][1]
             last_stop == interval_list[n][2]
         IN  IF 2 * (last_stop - last_start) <= cs
             THEN [i \in 1..(n - 1) |->
                      IF i = n - 1 THEN <<interval_list[i][1], last_stop>>
                      ELSE interval_list[i]]
             ELSE interval_list

\* as CGPWindows, but with the tail merge of augustus_pb.setup
CGPWindowsMerged(size, cs, ov) ==
    LET starts == XRange(size, cs - ov)
        n == Len(starts)
    IN  IF n >= 2 /\ 2 * (size - starts[n]) <= cs
        THEN [i \in 1..(n - 1) |->
                 <<starts[i], IF i = n - 1 \/ starts[i] + cs > size
                              THEN size - starts[i] ELSE cs>>]
        ELSE [i \in 1..n |->
                 <<starts[i], IF starts[i] + cs <= size THEN cs ELSE size - starts[i]>>]

\* augustus_cgp.setup: (start, chunksize) per start, the last window cut at chrom_size
CGPWindows(size, cs, ov) ==
    LET starts == XRange(size, cs - ov)
    IN  [i \in 1..Len(starts) |->
            <<starts[i], IF starts[i] + cs <= size THEN cs ELSE size - starts[i]>>]

\* ---- initial states ----
NoRv == [raw |-> 0, gtf |-> 0, gp |-> 0]
NoAssign == [gtf |-> 0, df |-> "none", fail_count |-> "none"]
NoExport == [raw |-> <<>>, gtf |-> <<>>, gp |-> <<>>, df |-> "none", fail_count |-> "none",
             done |-> FALSE]

\* the workflow as toil.start receives it: only the root job (setup) exists
InitGraph ==
    /\ setupStatus = "issued"
    /\ intervals = [c \in Chroms |-> <<>>]
    /\ chunks = <<>>
    /\ chunkStatus = <<>>
    /\ mafChunk = <<>>
    /\ cgpStatus = <<>>
    /\ predictions = <<>>
    /\ hintsSubset = <<>>
    /\ mergeStatus = "none"
    /\ joinStatus = [g \in Genomes |-> "none"]
    /\ joinInput = [g \in Genomes |-> <<>>]
    /\ joinRv = [g \in Genomes |-> NoRv]
    /\ joingenesRuns = [g \in Genomes |-> 0]
    /\ assignStatus = [g \in Genomes |-> "none"]
    /\ assignRv = [g \in Genomes |-> NoAssign]
    /\ assignCalls = [g \in Genomes |-> 0]
    /\ fileStore = <<>>
    /\ tree = 0
    /\ toil = "running"
    /\ exported = [g \in Genomes |-> NoExport]

InitArgs(maxLen, maxChunk, maxOverlap) ==
    /\ mode \in {"pb", "cgp"}
    /\ chunksize \in 1..maxChunk
    /\ overlap \in 1..maxOverlap
    /\ chromSizes \in UNION {[1..n -> 1..maxLen] : n \in 1..MaxChroms}

\* the number of chunk jobs setup adds for these sequences
RECURSIVE NumJobs(_, _, _, _)
NumJobs(m, sizes, cs, ov) ==
    IF sizes = <<>> THEN 0
    ELSE (IF m = "pb" THEN Len(MergeTail(PBWindows(Head(sizes), cs, ov), cs))
                      ELSE Len(CGPWindows(Head(sizes), cs, ov)))
         + NumJobs(m, Tail(sizes), cs, ov)

\* every genome geometry up to MaxLen: the inputs of the planner
InitPlan == InitArgs(MaxLen, MaxChunkSize, MaxOverlap) /\ hints = <<>> /\ InitGraph

\* the geometries that start at most MaxJobs chunks: the inputs of the job graph
Init ==
    /\ InitArgs(JobMaxLen, JobMaxChunk, JobMaxChunk)
    /\ NumJobs(mode, chromSizes, chunksize, overlap) <= MaxJobs
    /\ hints = <<>>
    /\ InitGraph

\* ---- the setup jobs ----
\* augustus_pb.setup: plan, merge the tail, one augustus_pb_chunk child per interval in
\* the iteration order of the intervals dict, join_genes as follow-on
PBJobs(ivs, order) ==
    Flatten([k \in 1..Len(order) |->
                [i \in 1..Len(ivs[order[k]]) |->
                    [chrom |-> order[k], start |-> ivs[order[k]][i][1],
                     stop |-> ivs[order[k]][i][2]]]])

SetupPB ==
    /\ mode = "pb"
    /\ toil = "running"
    /\ setupStatus = "issued"
    /\ IF chunksize - overlap = 0
       THEN \* xrange() arg 3 must not be zero: ValueError in the first loop
            /\ setupStatus' = "failed"
            /\ UNCHANGED <<intervals, chunks, chunkStatus, predictions, hintsSubset, joinStatus>>
       ELSE /\ intervals' = [c \in Chroms |->
                                MergeTail(PBWindows(chromSizes[c], chunksize, overlap), chunksize)]
            /\ \E order \in Perms({c \in Chroms : intervals'[c] # <<>>}) :
                   chunks' = PBJobs(intervals', order)
            /\ chunkStatus' = [i \in 1..Len(chunks') |-> "issued"]
            /\ predictions' = [i \in 1..Len(chunks') |-> 0]
            /\ hintsSubset' = [i \in 1..Len(chunks') |-> <<>>]
            /\ joinStatus' = [joinStatus EXCEPT ![PBGenome] = "issued"]
            /\ setupStatus' = "done"
    /\ UNCHANGED <<args, joingenesRuns, mafChunk, cgpStatus, mergeStatus, joinInput, joinRv,
                   assignStatus, assignRv, assignCalls, fileStore, tree, toil, exported>>

\* augustus_cgp.setup: the tree, then per chromosome of the sizes file and per start a
\* hal2maf child with a cgp follow-on, merge_results as follow-on
CGPJobs(sizes, cs, ov) ==
    Flatten([c \in 1..Len(sizes) |->
                LET w == CGPWindows(sizes[c], cs, ov)
                IN  [i \in 1..Len(w) |-> [chrom |-> c, start |-> w[i][1], chunk_size |-> w[i][2]]]])

TreeFile == <<"newick">>

SetupCGP ==
    /\ mode = "cgp"
    /\ toil = "running"
    /\ setupStatus = "issued"
    /\ fileStore' = Append(fileStore, TreeFile)
    /\ tree' = Len(fileStore')
    /\ IF chunksize - overlap = 0
       THEN /\ setupStatus' = "failed"
            /\ UNCHANGED <<chunks, chunkStatus, mafChunk, cgpStatus, predictions, mergeStatus>>
       ELSE /\ chunks' = CGPJobs(chromSizes, chunksize, overlap)
            /\ chunkStatus' = [i \in 1..Len(chunks') |-> "issued"]
            /\ mafChunk' = [i \in 1..Len(chunks') |-> 0]
            /\ cgpStatus' = [i \in 1..Len(chunks') |-> "issued"]
            /\ predictions' = [i \in 1..Len(chunks') |-> [g \in Genomes |-> 0]]
            /\ mergeStatus' = "issued"
            /\ setupStatus' = "done"
    /\ UNCHANGED <<args, joingenesRuns, hintsSubset, intervals, joinStatus, joinInput, joinRv,
                   assignStatus, assignRv, assignCalls, toil, exported>>

\* ---- what the external programs write ----
\* augustus on one slice: its feature lines carry the coordinates of the slice it was given
AugustusLines(chrom, start, stop, genome) ==
    [n \in 1..LinesPerChunk |->
        [chrom |-> chrom, start |-> start, stop |-> stop, genome |-> genome, n |-> n,
         source |-> "AUGUSTUS", id |-> [tag |-> "g", n |-> n], parent |-> "none"]]

\* hal2maf --refSequence chrom --start start --length chunk_size
MafSlice(chrom, start, chunk_size) == <<[chrom |-> chrom, start |-> start, length |-> chunk_size]>>

\* joingenes -f fofn: the transcripts of the listed files, in the order listed, renamed jg<n>
Joingenes(files) ==
    [i \in 1..Len(Flatten(files)) |-> [Flatten(files)[i] EXCEPT !.id = [tag |-> "jg", n |-> i]]]

\* the identifier prefixes of the two pipelines
PBPrefix == "augPB-"

CGPPrefixAsPB == "augPB-"

CGPPrefix == "augCGP-"

\* sed s/jg/<prefix>/g: every jg of an identifier becomes the prefix
Sed(prefix, lines) ==
    [i \in 1..Len(lines) |->
        [lines[i] EXCEPT !.id.tag = IF @ = "jg" THEN prefix ELSE @]]

\* grep -P '\tAUGUSTUS\t(exon|CDS|start_codon|stop_codon|tts|tss)\t'
Grep(lines) == SelectSeq(lines, LAMBDA l : l.source = "AUGUSTUS")

\* gtfToGenePred -genePredExt, then genePredToGtf -source=augustusPB
GtfToGenePred(lines) == [i \in 1..Len(lines) |-> [lines[i] EXCEPT !.source = "genePred"]]

GenePredToGtf(gp, src) == [i \in 1..Len(gp) |-> [gp[i] EXCEPT !.source = src]]

\* ---- Toil's scheduling rules, as the job graph of setup uses them ----
AllDone(status) == \A i \in 1..Len(status) : status[i] = "done"

Started(st) == st \in {"running", "done", "failed"}

\* ---- single-genome mode: augustus_pb_chunk and join_genes ----
\* as SliceHints, but a record that merely overlaps the window passes
SliceHintsOverlapping(records, chrom, start, stop) ==
    SelectSeq(records, LAMBDA h : h.seq = chrom /\ h.end >= start /\ h.start <= stop)

\* awk '($1 == "chrom" && $4 >= start && $5 <= stop) {print $0}' on the hints file
SliceHints(records, chrom, start, stop) ==
    SelectSeq(records, LAMBDA h : h.seq = chrom /\ h.start >= start /\ h.end <= stop)

StartChunkPB(i) ==
    /\ mode = "pb" /\ toil = "running"
    /\ setupStatus = "done"
    /\ chunkStatus[i] = "issued"
    /\ chunkStatus' = [chunkStatus EXCEPT ![i] = "running"]
    /\ UNCHANGED <<args, joingenesRuns, hintsSubset, setupStatus, intervals, chunks, mafChunk, cgpStatus, predictions,
                   mergeStatus, joinStatus, joinInput, joinRv, assignStatus, assignRv,
                   assignCalls, fileStore, tree, toil, exported>>

FinishChunkPB(i) ==
    /\ mode = "pb" /\ toil = "running"
    /\ chunkStatus[i] = "running"
    /\ hintsSubset' = [hintsSubset EXCEPT ![i] =
                           SliceHints(hints, chunks[i].chrom, chunks[i].start, chunks[i].stop)]
    /\ fileStore' = Append(fileStore,
                           AugustusLines(chunks[i].chrom, chunks[i].start, chunks[i].stop, PBGenome))
    /\ predictions' = [predictions EXCEPT ![i] = Len(fileStore')]
    /\ chunkStatus' = [chunkStatus EXCEPT ![i] = "done"]
    /\ UNCHANGED <<args, joingenesRuns, setupStatus, intervals, chunks, mafChunk, cgpStatus,
                   mergeStatus, joinStatus, joinInput, joinRv, assignStatus, assignRv,
                   assignCalls, tree, toil, exported>>

\* run_proc raises on a non-zero exit of awk or augustus; the job fails for good
FailChunkPB(i) ==
    /\ mode = "pb" /\ toil = "running"
    /\ chunkStatus[i] = "running"
    /\ chunkStatus' = [chunkStatus EXCEPT ![i] = "failed"]
    /\ UNCHANGED <<args, joingenesRuns, hintsSubset, setupStatus, intervals, chunks, mafChunk, cgpStatus, predictions,
                   mergeStatus, joinStatus, joinInput, joinRv, assignStatus, assignRv,
                   assignCalls, fileStore, tree, toil, exported>>

\* as StartJoinPB, had setup added join_genes with addChildJobFn: it waits for setup only
StartJoinPBAsChild ==
    /\ mode = "pb" /\ toil = "running"
    /\ setupStatus = "done"
    /\ joinStatus[PBGenome] = "issued"
    /\ joinInput' = [joinInput EXCEPT ![PBGenome] = predictions]
    /\ joinStatus' = [joinStatus EXCEPT ![PBGenome] = "running"]
    /\ UNCHANGED <<args, joingenesRuns, hintsSubset, setupStatus, intervals, chunks, chunkStatus, mafChunk, cgpStatus,
                   predictions, mergeStatus, joinRv, assignStatus, assignRv,
                   assignCalls, fileStore, tree, toil, exported>>

\* join_genes is the follow-on of setup: it starts when setup and all its children are
\* done, and receives the promised file ids in the order of the predictions list
StartJoinPB ==
    /\ mode = "pb" /\ toil = "running"
    /\ setupStatus = "done"
    /\ AllDone(chunkStatus)
    /\ joinStatus[PBGenome] = "issued"
    /\ joinInput' = [joinInput EXCEPT ![PBGenome] = predictions]
    /\ joinStatus' = [joinStatus EXCEPT ![PBGenome] = "running"]
    /\ UNCHANGED <<args, joingenesRuns, hintsSubset, setupStatus, intervals, chunks, chunkStatus, mafChunk, cgpStatus,
                   predictions, mergeStatus, joinRv, assignStatus, assignRv,
                   assignCalls, fileStore, tree, toil, exported>>

\* as ReadChunks, but the first chunk of the list is skipped
ReadChunksSkipFirst(ids) == [i \in 1..(Len(ids) - 1) |-> fileStore[ids[i + 1]]]

\* as ReadChunks, but in the order the files were written to the file store
ReadChunksAsWritten(ids) ==
    LET Rank(i) == Cardinality({j \in 1..Len(ids) : ids[j] < ids[i]}) + 1
    IN  [k \in 1..Len(ids) |-> fileStore[ids[CHOOSE i \in 1..Len(ids) : Rank(i) = k]]]

\* the files join_genes reads, in the order it reads them
ReadChunks(ids) == [i \in 1..Len(ids) |-> fileStore[ids[i]]]

FinishJoinPB ==
    /\ mode = "pb" /\ toil = "running"
    /\ joinStatus[PBGenome] = "running"
    /\ joingenesRuns' = [joingenesRuns EXCEPT ![PBGenome] = @ + 1]
    /\ LET files == ReadChunks(joinInput[PBGenome])
           raw_gtf_file == Flatten(files)
           join_genes_gp == GtfToGenePred(Sed(PBPrefix, Grep(Joingenes(files))))
           join_genes_file == GenePredToGtf(join_genes_gp, "augustusPB")
       IN  /\ fileStore' = fileStore \o <<join_genes_file, raw_gtf_file, join_genes_gp>>
           /\ joinRv' = [joinRv EXCEPT ![PBGenome] =
                            [raw |-> Len(fileStore) + 2, gtf |-> Len(fileStore) + 1,
                             gp |-> Len(fileStore) + 3]]
    /\ joinStatus' = [joinStatus EXCEPT ![PBGenome] = "done"]
    /\ UNCHANGED <<args, hintsSubset, setupStatus, intervals, chunks, chunkStatus, mafChunk, cgpStatus,
                   predictions, mergeStatus, joinInput, assignStatus, assignRv,
                   assignCalls, tree, toil, exported>>

\* a command of join_genes exits non-zero: joingenes, the first of them, has been run
FailJoinPB ==
    /\ mode = "pb" /\ toil = "running"
    /\ joinStatus[PBGenome] = "running"
    /\ joingenesRuns' = [joingenesRuns EXCEPT ![PBGenome] = @ + 1]
    /\ joinStatus' = [joinStatus EXCEPT ![PBGenome] = "failed"]
    /\ UNCHANGED <<args, hintsSubset, setupStatus, intervals, chunks, chunkStatus, mafChunk, cgpStatus,
                   predictions, mergeStatus, joinInput, joinRv, assignStatus, assignRv,
                   assignCalls, fileStore, tree, toil, exported>>

\* augustus_pb: toil.start returns the value of setup, the three ids of join_genes, and
\* the three files are exported
ExportPB ==
    /\ mode = "pb" /\ toil = "running"
    /\ setupStatus = "done" /\ AllDone(chunkStatus) /\ joinStatus[PBGenome] = "done"
    /\ exported' = [exported EXCEPT ![PBGenome] =
                       [raw |-> fileStore[joinRv[PBGenome].raw],
                        gtf |-> fileStore[joinRv[PBGenome].gtf],
                        gp |-> fileStore[joinRv[PBGenome].gp],
                        df |-> "none", fail_count |-> "none", done |-> TRUE]]
    /\ toil' = "returned"
    /\ UNCHANGED <<args, joingenesRuns, hintsSubset, setupStatus, intervals, chunks, chunkStatus, mafChunk, cgpStatus,
                   predictions, mergeStatus, joinStatus, joinInput, joinRv, assignStatus,
                   assignRv, assignCalls, fileStore, tree>>

\* ---- alignment mode: hal2maf, cgp, merge_results, join_genes, assign_parents ----
StartHal2maf(i) ==
    /\ mode = "cgp" /\ toil = "running"
    /\ setupStatus = "done"
    /\ chunkStatus[i] = "issued"
    /\ chunkStatus' = [chunkStatus EXCEPT ![i] = "running"]
    /\ UNCHANGED <<args, joingenesRuns, hintsSubset, setupStatus, intervals, chunks, mafChunk, cgpStatus, predictions,
                   mergeStatus, joinStatus, joinInput, joinRv, assignStatus, assignRv,
                   assignCalls, fileStore, tree, toil, exported>>

FinishHal2maf(i) ==
    /\ mode = "cgp" /\ toil = "running"
    /\ chunkStatus[i] = "running"
    /\ fileStore' = Append(fileStore,
                           MafSlice(chunks[i].chrom, chunks[i].start, chunks[i].chunk_size))
    /\ mafChunk' = [mafChunk EXCEPT ![i] = Len(fileStore')]
    /\ chunkStatus' = [chunkStatus EXCEPT ![i] = "done"]
    /\ UNCHANGED <<args, joingenesRuns, hintsSubset, setupStatus, intervals, chunks, cgpStatus, predictions,
                   mergeStatus, joinStatus, joinInput, joinRv, assignStatus, assignRv,
                   assignCalls, tree, toil, exported>>

FailHal2maf(i) ==
    /\ mode = "cgp" /\ toil = "running"
    /\ chunkStatus[i] = "running"
    /\ chunkStatus' = [chunkStatus EXCEPT ![i] = "failed"]
    /\ UNCHANGED <<args, joingenesRuns, hintsSubset, setupStatus, intervals, chunks, mafChunk, cgpStatus, predictions,
                   mergeStatus, joinStatus, joinInput, joinRv, assignStatus, assignRv,
                   assignCalls, fileStore, tree, toil, exported>>

StartCgpAsChild(i) ==
    /\ mode = "cgp" /\ toil = "running"
    /\ setupStatus = "done"
    /\ cgpStatus[i] = "issued"
    /\ cgpStatus' = [cgpStatus EXCEPT ![i] = "running"]
    /\ UNCHANGED <<args, joingenesRuns, hintsSubset, setupStatus, intervals, chunks, chunkStatus, mafChunk, predictions,
                   mergeStatus, joinStatus, joinInput, joinRv, assignStatus, assignRv,
                   assignCalls, fileStore, tree, toil, exported>>

\* cgp is the follow-on of the hal2maf job of its chunk
StartCgp(i) ==
    /\ mode = "cgp" /\ toil = "running"
    /\ chunkStatus[i] = "done"
    /\ cgpStatus[i] = "issued"
    /\ cgpStatus' = [cgpStatus EXCEPT ![i] = "running"]
    /\ UNCHANGED <<args, joingenesRuns, hintsSubset, setupStatus, intervals, chunks, chunkStatus, mafChunk, predictions,
                   mergeStatus, joinStatus, joinInput, joinRv, assignStatus, assignRv,
                   assignCalls, fileStore, tree, toil, exported>>

\* augustus on the alignment slice mafChunk: one <genome>.cgp.gff per genome of args.genomes
CgpFiles(maf) ==
    [k \in 1..Len(GenomeList) |->
        AugustusLines(maf[1].chrom, maf[1].start, maf[1].start + maf[1].length, GenomeList[k])]

FinishCgp(i) ==
    /\ mode = "cgp" /\ toil = "running"
    /\ cgpStatus[i] = "running"
    /\ fileStore' = fileStore \o CgpFiles(fileStore[mafChunk[i]])
    /\ predictions' = [predictions EXCEPT ![i] =
                          [g \in Genomes |->
                              Len(fileStore) + CHOOSE k \in 1..Len(GenomeList) : GenomeList[k] = g]]
    /\ cgpStatus' = [cgpStatus EXCEPT ![i] = "done"]
    /\ UNCHANGED <<args, joingenesRuns, hintsSubset, setupStatus, intervals, chunks, chunkStatus, mafChunk,
                   mergeStatus, joinStatus, joinInput, joinRv, assignStatus, assignRv,
                   assignCalls, tree, toil, exported>>

FailCgp(i) ==
    /\ mode = "cgp" /\ toil = "running"
    /\ cgpStatus[i] = "running"
    /\ cgpStatus' = [cgpStatus EXCEPT ![i] = "failed"]
    /\ UNCHANGED <<args, joingenesRuns, hintsSubset, setupStatus, intervals, chunks, chunkStatus, mafChunk, predictions,
                   mergeStatus, joinStatus, joinInput, joinRv, assignStatus, assignRv,
                   assignCalls, fileStore, tree, toil, exported>>

\* merge_results is the follow-on of setup: it runs when every hal2maf child and every
\* cgp follow-on is done, and adds one join_genes child per genome
MergeResults ==
    /\ mode = "cgp" /\ toil = "running"
    /\ setupStatus = "done"
    /\ AllDone(chunkStatus) /\ AllDone(cgpStatus)
    /\ mergeStatus = "issued"
    /\ joinInput' = [g \in Genomes |-> [i \in 1..Len(predictions) |-> predictions[i][g]]]
    /\ joinStatus' = [g \in Genomes |-> "issued"]
    /\ mergeStatus' = "done"
    /\ UNCHANGED <<args, joingenesRuns, hintsSubset, setupStatus, intervals, chunks, chunkStatus, mafChunk, cgpStatus,
                   predictions, joinRv, assignStatus, assignRv, assignCalls, fileStore,
                   tree, toil, exported>>

StartJoinCGP(g) ==
    /\ mode = "cgp" /\ toil = "running"
    /\ mergeStatus = "done"
    /\ joinStatus[g] = "issued"
    /\ joinStatus' = [joinStatus EXCEPT ![g] = "running"]
    /\ UNCHANGED <<args, joingenesRuns, hintsSubset, setupStatus, intervals, chunks, chunkStatus, mafChunk, cgpStatus,
                   predictions, mergeStatus, joinInput, joinRv, assignStatus, assignRv,
                   assignCalls, fileStore, tree, toil, exported>>

\* join_genes of augustus_cgp: the joined file, the raw concatenation, and assign_parents
\* added as follow-on
FinishJoinCGP(g) ==
    /\ mode = "cgp" /\ toil = "running"
    /\ joinStatus[g] = "running"
    /\ joingenesRuns' = [joingenesRuns EXCEPT ![g] = @ + 1]
    /\ LET files == ReadChunks(joinInput[g])
           raw_gtf_file == Flatten(files)
           join_genes_file == Sed(CGPPrefix, Grep(Joingenes(files)))
       IN  /\ fileStore' = fileStore \o <<join_genes_file, raw_gtf_file>>
           /\ joinRv' = [joinRv EXCEPT ![g] =
                            [raw |-> Len(fileStore) + 2, gtf |-> Len(fileStore) + 1, gp |-> 0]]
    /\ assignStatus' = [assignStatus EXCEPT ![g] = "issued"]
    /\ joinStatus' = [joinStatus EXCEPT ![g] = "done"]
    /\ UNCHANGED <<args, hintsSubset, setupStatus, intervals, chunks, chunkStatus, mafChunk, cgpStatus,
                   predictions, mergeStatus, joinInput, assignRv, assignCalls, tree, toil,
                   exported>>

FailJoinCGP(g) ==
    /\ mode = "cgp" /\ toil = "running"
    /\ joinStatus[g] = "running"
    /\ joingenesRuns' = [joingenesRuns EXCEPT ![g] = @ + 1]
    /\ joinStatus' = [joinStatus EXCEPT ![g] = "failed"]
    /\ UNCHANGED <<args, hintsSubset, setupStatus, intervals, chunks, chunkStatus, mafChunk, cgpStatus,
                   predictions, mergeStatus, joinInput, joinRv, assignStatus, assignRv,
                   assignCalls, fileStore, tree, toil, exported>>

\* tools.parentGeneAssignment.assign_parents: the annotated gtf, a dataframe, a fail count
Annotate(lines) == [i \in 1..Len(lines) |-> [lines[i] EXCEPT !.parent = "assigned"]]

StartAssign(g) ==
    /\ mode = "cgp" /\ toil = "running"
    /\ joinStatus[g] = "done"
    /\ assignStatus[g] = "issued"
    /\ assignStatus' = [assignStatus EXCEPT ![g] = "running"]
    /\ assignCalls' = [assignCalls EXCEPT ![g] = @ + 1]
    /\ UNCHANGED <<args, joingenesRuns, hintsSubset, setupStatus, intervals, chunks, chunkStatus, mafChunk, cgpStatus,
                   predictions, mergeStatus, joinStatus, joinInput, joinRv, assignRv,
                   fileStore, tree, toil, exported>>

FinishAssign(g) ==
    /\ mode = "cgp" /\ toil = "running"
    /\ assignStatus[g] = "running"
    /\ fileStore' = Append(fileStore, Annotate(fileStore[joinRv[g].gtf]))
    /\ assignRv' = [assignRv EXCEPT ![g] =
                       [gtf |-> Len(fileStore'), df |-> <<"df", g>>, fail_count |-> <<"failed", g>>]]
    /\ assignStatus' = [assignStatus EXCEPT ![g] = "done"]
    /\ UNCHANGED <<args, joingenesRuns, hintsSubset, setupStatus, intervals, chunks, chunkStatus, mafChunk, cgpStatus,
                   predictions, mergeStatus, joinStatus, joinInput, joinRv, assignCalls,
                   tree, toil, exported>>

FailAssign(g) ==
    /\ mode = "cgp" /\ toil = "running"
    /\ assignStatus[g] = "running"
    /\ assignStatus' = [assignStatus EXCEPT ![g] = "failed"]
    /\ UNCHANGED <<args, joingenesRuns, hintsSubset, setupStatus, intervals, chunks, chunkStatus, mafChunk, cgpStatus,
                   predictions, mergeStatus, joinStatus, joinInput, joinRv, assignRv,
                   assignCalls, fileStore, tree, toil, exported>>

\* as ExportCGP, but exporting whatever genomes finished although a job has failed
ExportCGPPartial ==
    /\ mode = "cgp" /\ toil = "running"
    /\ setupStatus = "done" /\ mergeStatus = "done"
    /\ \A g \in Genomes : joinStatus[g] \in {"done", "failed"}
    /\ \A g \in Genomes : joinStatus[g] = "done" => assignStatus[g] = "done"
    /\ exported' = [g \in Genomes |->
                       IF joinStatus[g] = "done"
                       THEN [raw |-> fileStore[joinRv[g].raw],
                             gtf |-> fileStore[assignRv[g].gtf],
                             gp |-> <<>>,
                             df |-> assignRv[g].df, fail_count |-> assignRv[g].fail_count,
                             done |-> TRUE]
                       ELSE exported[g]]
    /\ toil' = "returned"
    /\ UNCHANGED <<args, joingenesRuns, hintsSubset, setupStatus, intervals, chunks, chunkStatus, mafChunk, cgpStatus,
                   predictions, mergeStatus, joinStatus, joinInput, joinRv, assignStatus,
                   assignRv, assignCalls, fileStore, tree>>

\* augustus_cgp: toil.start returns the dict of merge_results once every job is done;
\* per genome the raw and the annotated gtf are exported, df and fail_count returned
ExportCGP ==
    /\ mode = "cgp" /\ toil = "running"
    /\ setupStatus = "done" /\ mergeStatus = "done"
    /\ \A g \in Genomes : joinStatus[g] = "done" /\ assignStatus[g] = "done"
    /\ exported' = [g \in Genomes |->
                       [raw |-> fileStore[joinRv[g].raw],
                        gtf |-> fileStore[assignRv[g].gtf],
                        gp |-> <<>>,
                        df |-> assignRv[g].df, fail_count |-> assignRv[g].fail_count,
                        done |-> TRUE]]
    /\ toil' = "returned"
    /\ UNCHANGED <<args, joingenesRuns, hintsSubset, setupStatus, intervals, chunks, chunkStatus, mafChunk, cgpStatus,
                   predictions, mergeStatus, joinStatus, joinInput, joinRv, assignStatus,
                   assignRv, assignCalls, fileStore, tree>>

\* ---- the end of a failed workflow ----
AllStatus ==
    {setupStatus, mergeStatus} \cup Range(chunkStatus) \cup Range(cgpStatus)
        \cup {joinStatus[g] : g \in Genomes} \cup {assignStatus[g] : g \in Genomes}

\* the jobs whose predecessors are all done
Ready ==
    \/ setupStatus = "issued"
    \/ setupStatus = "done" /\ "issued" \in Range(chunkStatus)
    \/ \E i \in 1..Len(cgpStatus) : chunkStatus[i] = "done" /\ cgpStatus[i] = "issued"
    \/ mode = "pb" /\ setupStatus = "done" /\ AllDone(chunkStatus) /\ joinStatus[PBGenome] = "issued"
    \/ mode = "cgp" /\ setupStatus = "done" /\ AllDone(chunkStatus) /\ AllDone(cgpStatus)
          /\ mergeStatus = "issued"
    \/ \E g \in Genomes : mode = "cgp" /\ mergeStatus = "done" /\ joinStatus[g] = "issued"
    \/ \E g \in Genomes : joinStatus[g] = "done" /\ assignStatus[g] = "issued"

\* toil.start raises FailedJobsException: a job has failed for good and the leader has
\* run everything that does not depend on it; nothing is exported
Raise ==
    /\ toil = "running"
    /\ "failed" \in AllStatus
    /\ "running" \notin AllStatus
    /\ ~Ready
    /\ toil' = "raised"
    /\ UNCHANGED <<args, joingenesRuns, hintsSubset, setupStatus, intervals, chunks, chunkStatus, mafChunk, cgpStatus,
                   predictions, mergeStatus, joinStatus, joinInput, joinRv, assignStatus,
                   assignRv, assignCalls, fileStore, tree, exported>>

Next ==
    \/ SetupPB
    \/ SetupCGP
    \/ \E i \in 1..Len(chunks) : StartChunkPB(i)
    \/ \E i \in 1..Len(chunks) : FinishChunkPB(i)
    \/ \E i \in 1..Len(chunks) : FailChunkPB(i)
    \/ \E i \in 1..Len(chunks) : StartHal2maf(i)
    \/ \E i \in 1..Len(chunks) : FinishHal2maf(i)
    \/ \E i \in 1..Len(chunks) : FailHal2maf(i)
    \/ \E i \in 1..Len(chunks) : StartCgp(i)
    \/ \E i \in 1..Len(chunks) : FinishCgp(i)
    \/ \E i \in 1..Len(chunks) : FailCgp(i)
    \/ StartJoinPB
    \/ FinishJoinPB
    \/ FailJoinPB
    \/ ExportPB
    \/ MergeResults
    \/ \E g \in Genomes : StartJoinCGP(g)
    \/ \E g \in Genomes : FinishJoinCGP(g)
    \/ \E g \in Genomes : FailJoinCGP(g)
    \/ \E g \in Genomes : StartAssign(g)
    \/ \E g \in Genomes : FinishAssign(g)
    \/ \E g \in Genomes : FailAssign(g)
    \/ ExportCGP
    \/ Raise

Spec == Init /\ [][Next]_vars

\* ---- the hint slicer on its own: hints files of up to MaxHints records ----
HintRecords ==
    {[seq |-> q, start |-> a, end |-> b] : q \in 1..MaxHintSeqs, a \in 0..MaxHintPos, b \in 0..MaxHintPos}

HintFiles ==
    UNION {[1..n -> {h \in HintRecords : h.start <= h.end}] : n \in 0..MaxHints}

InitHints ==
    /\ mode = "pb"
    /\ chunksize \in 1..JobMaxChunk
    /\ overlap \in 1..(chunksize - 1)
    /\ chromSizes \in [1..1 -> 1..JobMaxLen]
    /\ NumJobs(mode, chromSizes, chunksize, overlap) <= MaxJobs
    /\ hints \in HintFiles
    /\ InitGraph

NextHints ==
    \/ SetupPB
    \/ \E i \in 1..Len(chunks) : StartChunkPB(i)
    \/ \E i \in 1..Len(chunks) : FinishChunkPB(i)

SpecHints == InitHints /\ [][NextHints]_vars

NextPlan == SetupPB \/ SetupCGP

SpecPlan == InitPlan /\ [][NextPlan]_vars

\* ---- the chunk plan that setup handed to the chunk jobs ----
JobStop(j) == IF mode = "pb" THEN j.stop ELSE j.start + j.chunk_size

JobsOf(c) == SelectSeq(chunks, LAMBDA j : j.chrom = c)

Plan(c) == [i \in 1..Len(JobsOf(c)) |-> <<JobsOf(c)[i].start, JobStop(JobsOf(c)[i])>>]

Covers(plan, size) ==
    /\ \A p \in 0..(size - 1) : \E i \in 1..Len(plan) : plan[i][1] <= p /\ p < plan[i][2]
    /\ \A i \in 1..Len(plan) : 0 <= plan[i][1] /\ plan[i][2] <= size

Planned == setupStatus = "done" /\ chunksize > overlap

\* C1: for chunk_size > overlap > 0 the plan of every sequence, as held by setup and as
\* handed to the chunk jobs in either mode, covers every position of [0, L) and no
\* interval reaches outside [0, L).
C1_PlanCoversSequence ==
    Planned =>
        \A c \in Chroms :
            /\ Covers(Plan(c), chromSizes[c])
            /\ mode = "pb" => Covers(intervals[c], chromSizes[c])

C1_Witness ==
    /\ Planned
    /\ mode = "pb"
    /\ \E c \in Chroms :
           /\ Len(intervals[c]) >= 2
           /\ Len(intervals[c]) < Len(PBWindows(chromSizes[c], chunksize, overlap))
           /\ Covers(Plan(c), chromSizes[c])

LastLen(plan) == plan[Len(plan)][2] - plan[Len(plan)][1]

\* C4 as stated: in the single-genome plan, a final plan of two or more intervals
\* ends in an interval longer than half a chunk.
C4_Original ==
    (Planned /\ mode = "pb") =>
        \A c \in Chroms : Len(intervals[c]) >= 2 => 2 * LastLen(intervals[c]) > chunksize

\* C4 amended: the same, for an overlap of at most half the chunk size.
C4_NoSmallTailWhenOverlapAtMostHalf ==
    (Planned /\ mode = "pb" /\ 2 * overlap <= chunksize) =>
        \A c \in Chroms :
            /\ Len(intervals[c]) >= 2 => 2 * LastLen(intervals[c]) > chunksize
            /\ Len(Plan(c)) >= 2 => 2 * LastLen(Plan(c)) > chunksize

C4_Witness ==
    /\ Planned
    /\ mode = "pb"
    /\ 2 * overlap <= chunksize
    /\ \E c \in Chroms :
           /\ Len(intervals[c]) >= 2
           /\ Len(intervals[c]) < Len(PBWindows(chromSizes[c], chunksize, overlap))
           /\ 2 * LastLen(intervals[c]) > chunksize

\* the sequences of the alignment mode whose last window is undersized
SmallTail(c) ==
    LET starts == XRange(chromSizes[c], chunksize - overlap)
    IN  Len(starts) >= 2 /\ 2 * (chromSizes[c] - starts[Len(starts)]) <= chunksize

\* C5 as stated: the alignment mode creates no job for an undersized last window and
\* extends the job of the window before it to the end of the sequence.
C5_Original ==
    (Planned /\ mode = "cgp") =>
        \A c \in Chroms :
            SmallTail(c) =>
                LET starts == XRange(chromSizes[c], chunksize - overlap)
                    n == Len(starts)
                IN  /\ ~ \E i \in 1..Len(chunks) :
                             chunks[i].chrom = c /\ chunks[i].start = starts[n]
                    /\ \E i \in 1..Len(chunks) :
                             /\ chunks[i].chrom = c
                             /\ chunks[i].start = starts[n - 1]
                             /\ chunks[i].start + chunks[i].chunk_size = chromSizes[c]

\* C5 amended: the alignment mode does not merge; an undersized last window gets its own
\* job of length L - start, and the job before it keeps the length min(chunk_size, L - start).
C5_CgpKeepsSmallTail ==
    (Planned /\ mode = "cgp") =>
        \A c \in Chroms :
            SmallTail(c) =>
                LET starts == XRange(chromSizes[c], chunksize - overlap)
                    n == Len(starts)
                    jobs == JobsOf(c)
                IN  /\ Len(jobs) = n
                    /\ jobs[n].start = starts[n]
                    /\ jobs[n].chunk_size = chromSizes[c] - starts[n]
                    /\ jobs[n - 1].start = starts[n - 1]
                    /\ jobs[n - 1].chunk_size = Min(chunksize, chromSizes[c] - starts[n - 1])

C5_Witness ==
    /\ Planned
    /\ mode = "cgp"
    /\ \E c \in Chroms :
           /\ SmallTail(c)
           /\ Len(JobsOf(c)) >= 2
           /\ 2 * JobsOf(c)[Len(JobsOf(c))].chunk_size <= chunksize
           /\ JobsOf(c)[Len(JobsOf(c)) - 1].chunk_size = chunksize
           /\ JobStop(JobsOf(c)[Len(JobsOf(c)) - 1]) < chromSizes[c]

\* C9 as stated: a sequence shorter than chunk_size is planned as the one interval [0, L).
C9_Original ==
    Planned =>
        \A c \in Chroms : chromSizes[c] < chunksize => Plan(c) = << <<0, chromSizes[c]>> >>

\* C9 amended: a sequence of length at most chunk_size - overlap is planned as the one
\* interval [0, L).
C9_OneIntervalUpToStep ==
    Planned =>
        \A c \in Chroms :
            chromSizes[c] <= chunksize - overlap => Plan(c) = << <<0, chromSizes[c]>> >>

C9_Witness ==
    /\ Planned
    /\ \E c \in Chroms :
           /\ chromSizes[c] < chunksize - overlap
           /\ Plan(c) = << <<0, chromSizes[c]>> >>
    /\ \E c \in Chroms : chromSizes[c] > chunksize - overlap /\ Len(Plan(c)) >= 2

\* C10: with chunk_size <= overlap setup fails and has created no chunk job and no merge job.
C10_Claim ==
    (chunksize <= overlap /\ setupStatus # "issued") =>
        /\ setupStatus = "failed"
        /\ chunks = <<>>
        /\ mergeStatus = "none"
        /\ \A g \in Genomes : joinStatus[g] = "none"

\* ---- the job graph ----
TargetGenomes == IF mode = "pb" THEN {PBGenome} ELSE Genomes

\* the jobs that run the predictor on a chunk (with, in alignment mode, the hal2maf job
\* that feeds it)
ChunkJobsDone ==
    setupStatus = "done" /\ AllDone(chunkStatus) /\ (mode = "cgp" => AllDone(cgpStatus))

ChunkFailed == "failed" \in (Range(chunkStatus) \cup Range(cgpStatus))

\* C2: join_genes of a genome has started only if every chunk job has completed
\* successfully; once a chunk job has failed for good, join_genes and the parent
\* assignment of the genome have not started (and, a failure being final, never will).
C2_MergeAfterAllChunks ==
    \A g \in TargetGenomes :
        /\ Started(joinStatus[g]) => ChunkJobsDone
        /\ ChunkFailed => ~Started(joinStatus[g]) /\ ~Started(assignStatus[g])

C2_Witness ==
    /\ Len(chunks) >= 2
    /\ ChunkJobsDone
    /\ \E g \in TargetGenomes : joinStatus[g] = "running"

\* C3 as stated: when the alignment-mode run has ended after the failure of a chunk task
\* or of the merge job of G1, and nothing of G2 itself has failed, the terminal outputs
\* of G2 have been produced.
C3_Original ==
    (/\ mode = "cgp"
     /\ toil # "running"
     /\ ChunkFailed \/ joinStatus["G1"] = "failed"
     /\ joinStatus["G2"] # "failed" /\ assignStatus["G2"] # "failed")
        => exported["G2"].done

\* C3 amended: in alignment mode the chunk tasks are shared by all genomes and the run
\* exports every genome or none: after the failure of a chunk task no genome's merge or
\* parent assignment is ever created; after the failure of G1's merge job G1's parent
\* assignment is never created, while G2's merge and assignment may complete; in both
\* cases no terminal output is produced for any genome, G2 included.
C3_FailureStopsEveryExport ==
    mode = "cgp" =>
        /\ ChunkFailed => \A g \in Genomes : joinStatus[g] = "none" /\ assignStatus[g] = "none"
        /\ \A g \in Genomes : joinStatus[g] = "failed" => assignStatus[g] = "none"
        /\ (ChunkFailed \/ \E g \in Genomes : joinStatus[g] = "failed")
               => \A g \in Genomes : ~exported[g].done

C3_Witness ==
    /\ mode = "cgp"
    /\ toil = "raised"
    /\ joinStatus["G1"] = "failed"
    /\ joinStatus["G2"] = "done" /\ assignStatus["G2"] = "done"
    /\ ~exported["G2"].done

\* C6: in both pipelines the parent assignment of a genome starts only after join_genes
\* of the genome is done, is invoked exactly once in a run that returns, and the values
\* it returned are the ones exported.
C6_Claim ==
    \A g \in TargetGenomes :
        /\ Started(assignStatus[g]) => joinStatus[g] = "done"
        /\ assignCalls[g] <= 1
        /\ toil = "returned" =>
               /\ assignCalls[g] = 1
               /\ exported[g].gtf = fileStore[assignRv[g].gtf]
               /\ exported[g].df = assignRv[g].df
               /\ exported[g].fail_count = assignRv[g].fail_count

\* the lines the predictor wrote for chunk i and genome g
ChunkLines(i, g) == AugustusLines(chunks[i].chrom, chunks[i].start, JobStop(chunks[i]), g)

Count(seq, x) == Cardinality({k \in 1..Len(seq) : seq[k] = x})

\* C7: once join_genes of a genome is done, its raw concatenation holds every line of
\* each of the N chunks' raw feature sets exactly once, and nothing else.
C7_ConcatenationComplete ==
    \A g \in TargetGenomes :
        joinStatus[g] = "done" =>
            LET raw == fileStore[joinRv[g].raw]
            IN  /\ Len(raw) = Len(chunks) * LinesPerChunk
                /\ \A i \in 1..Len(chunks) : \A n \in 1..LinesPerChunk :
                       Count(raw, ChunkLines(i, g)[n]) = 1

C7_Witness ==
    /\ mode = "cgp"
    /\ Len(chunks) >= 2
    /\ joinStatus["G2"] = "done"
    /\ Len(fileStore[joinRv["G2"].raw]) = Len(chunks) * LinesPerChunk

\* C8: the raw concatenation of a genome lists the chunks in the order setup emitted
\* them, whatever the order in which the chunk jobs ran and completed.
C8_ConcatenationInEmissionOrder ==
    \A g \in TargetGenomes :
        joinStatus[g] = "done" =>
            fileStore[joinRv[g].raw] = Flatten([i \in 1..Len(chunks) |-> ChunkLines(i, g)])

C8_Witness ==
    /\ Len(chunks) >= 2
    /\ \E g \in TargetGenomes :
           /\ joinStatus[g] = "done"
           /\ joinInput[g][1] > joinInput[g][2]
           /\ fileStore[joinRv[g].raw] = Flatten([i \in 1..Len(chunks) |-> ChunkLines(i, g)])

\* ---- the geometry of consecutive intervals ----
\* all pairs of consecutive intervals of a plan but the last pair overlap by ov positions
OverlapExact(plan, ov) ==
    \A i \in 1..(Len(plan) - 2) : plan[i][2] - plan[i + 1][1] = ov

\* C11 as stated: for chunk_size > overlap > 0, every pair of consecutive intervals of a
\* sequence, except possibly the last pair, overlaps by exactly overlap positions.
C11_Original ==
    Planned => \A c \in Chroms : OverlapExact(Plan(c), overlap)

\* C11 amended: the same, for an overlap of at most half the chunk size.
C11_OverlapExactWhenOverlapAtMostHalf ==
    (Planned /\ 2 * overlap <= chunksize) =>
        \A c \in Chroms :
            /\ OverlapExact(Plan(c), overlap)
            /\ mode = "pb" => OverlapExact(intervals[c], overlap)

C11_Witness ==
    /\ Planned
    /\ 2 * overlap <= chunksize
    /\ \E c \in Chroms :
           /\ Len(Plan(c)) >= 3
           /\ Plan(c)[1][2] - Plan(c)[2][1] = overlap
           /\ Plan(c)[Len(Plan(c)) - 1][2] - Plan(c)[Len(Plan(c))][1] # overlap

\* C12: for chunk_size > overlap > 0 the first interval of a sequence starts at 0 and
\* every next interval starts chunk_size - overlap after the one before it; the tail
\* merge moves no start.
C12_StartsAdvanceByStep ==
    Planned =>
        \A c \in Chroms :
            /\ Len(Plan(c)) >= 1 /\ Plan(c)[1][1] = 0
            /\ \A i \in 1..(Len(Plan(c)) - 1) :
                   Plan(c)[i + 1][1] = Plan(c)[i][1] + (chunksize - overlap)
            /\ mode = "pb" =>
                   /\ Len(intervals[c]) >= 1 /\ intervals[c][1][1] = 0
                   /\ \A i \in 1..(Len(intervals[c]) - 1) :
                          intervals[c][i + 1][1] = intervals[c][i][1] + (chunksize - overlap)

C12_Witness ==
    /\ Planned
    /\ mode = "pb"
    /\ \E c \in Chroms :
           /\ Len(intervals[c]) >= 3
           /\ Len(intervals[c]) < Len(PBWindows(chromSizes[c], chunksize, overlap))
           /\ intervals[c][3][1] = 2 * (chunksize - overlap)

\* C17: against the intervals generated by the first loop, the tail merge of the
\* single-genome planner removes at most the last interval of a sequence and then sets
\* the stop of the new last interval to the sequence length; every other interval, and
\* with it the plan of every sequence that is not merged, is as generated, and a plan
\* of one interval is never modified.
C17_MergeChangesOnlyTheTail ==
    (Planned /\ mode = "pb") =>
        \A c \in Chroms :
            LET gen == PBWindows(chromSizes[c], chunksize, overlap)
                fin == intervals[c]
            IN  /\ Len(fin) \in {Len(gen), Len(gen) - 1}
                /\ Len(fin) = Len(gen) => fin = gen
                /\ Len(gen) = 1 => fin = gen
                /\ Len(fin) = Len(gen) - 1 =>
                       /\ \A i \in 1..(Len(fin) - 1) : fin[i] = gen[i]
                       /\ fin[Len(fin)] = <<gen[Len(fin)][1], chromSizes[c]>>

C17_Witness ==
    /\ Planned
    /\ mode = "pb"
    /\ \E c, d \in Chroms :
           /\ Len(PBWindows(chromSizes[c], chunksize, overlap)) >= 3
           /\ Len(intervals[c]) = Len(PBWindows(chromSizes[c], chunksize, overlap)) - 1
           /\ intervals[c][Len(intervals[c])][2] = chromSizes[c]
           /\ Len(intervals[d]) >= 2
           /\ intervals[d] = PBWindows(chromSizes[d], chunksize, overlap)

\* ---- the hint slicer ----
\* the positions in the hints file of the records on chrom that lie wholly in [start, stop]
Contained(chrom, start, stop) ==
    {k \in 1..Len(hints) :
        hints[k].seq = chrom /\ hints[k].start >= start /\ hints[k].end <= stop}

\* C13: the hints a finished chunk job sliced out for (chrom, start, stop) are exactly
\* the records of the hints file on chrom with feature start >= start and feature end
\* <= stop, each once and in the order of the file; a record that only overlaps the
\* window is not among them.
C13_SliceIsContainmentFilter ==
    \A i \in 1..Len(chunks) :
        (mode = "pb" /\ chunkStatus[i] = "done") =>
            LET K == Contained(chunks[i].chrom, chunks[i].start, chunks[i].stop)
                sub == hintsSubset[i]
            IN  /\ Len(sub) = Cardinality(K)
                /\ \A k \in K : sub[Cardinality({m \in K : m <= k})] = hints[k]

C13_Witness ==
    /\ mode = "pb"
    /\ Len(hints) >= 2
    /\ \E i \in 1..Len(chunks) :
           /\ chunkStatus[i] = "done"
           /\ chunks[i].start > 0
           /\ hints[1].seq = chunks[i].chrom
           /\ hints[1].start < chunks[i].start /\ hints[1].end >= chunks[i].start
           /\ hintsSubset[i] = <<hints[2]>>

\* ---- join_genes without input ----
\* C14: join_genes of a genome that was given no raw feature set fails before it runs
\* joingenes and returns no merged output.
C14_Claim ==
    \A g \in TargetGenomes :
        (joinStatus[g] \in {"done", "failed"} /\ joinInput[g] = <<>>) =>
            /\ joingenesRuns[g] = 0
            /\ joinStatus[g] = "failed"
            /\ joinRv[g] = NoRv

\* ---- identifier prefixes ----
OwnPrefix == IF mode = "pb" THEN "augPB-" ELSE "augCGP-"

OtherPrefix == IF mode = "pb" THEN "augCGP-" ELSE "augPB-"

\* C15: in the merged output of a genome every identifier named jg<n> by the merge
\* tool carries the prefix of its own pipeline (augPB- in single-genome mode, augCGP-
\* in alignment mode); none is left as jg and none carries the prefix of the other
\* pipeline.
C15_OwnPrefixOnly ==
    \A g \in TargetGenomes :
        joinStatus[g] = "done" =>
            LET merged == fileStore[joinRv[g].gtf]
            IN  /\ Len(merged) = Len(fileStore[joinRv[g].raw])
                /\ \A l \in 1..Len(merged) :
                       /\ merged[l].id = [tag |-> OwnPrefix, n |-> l]
                       /\ merged[l].id.tag \notin {"jg", OtherPrefix}

C15_Witness ==
    /\ mode = "cgp"
    /\ joinStatus["G1"] = "done"
    /\ Len(fileStore[joinRv["G1"].gtf]) >= 2
    /\ fileStore[joinRv["G1"].gtf][2].id = [tag |-> "augCGP-", n |-> 2]

\* ---- chunk pipeline of the alignment mode ----
\* C16: in alignment mode the cgp job of a chunk has started only if the hal2maf job
\* of the same chunk is done; the alignment file it reads is the slice extracted for
\* that chunk's (sequence, start, length), a file of no other chunk, and the
\* predictions it returns are those of that slice.
C16_CgpAfterOwnHal2maf ==
    mode = "cgp" =>
        \A i \in 1..Len(chunks) :
            /\ Started(cgpStatus[i]) =>
                   /\ chunkStatus[i] = "done"
                   /\ mafChunk[i] \in 1..Len(fileStore)
                   /\ fileStore[mafChunk[i]] =
                          MafSlice(chunks[i].chrom, chunks[i].start, chunks[i].chunk_size)
                   /\ \A j \in 1..Len(chunks) : j # i => mafChunk[j] # mafChunk[i]
            /\ cgpStatus[i] = "done" =>
                   \A g \in Genomes : fileStore[predictions[i][g]] = ChunkLines(i, g)

C16_Witness ==
    /\ mode = "cgp"
    /\ Len(chunks) >= 2
    /\ \E i, j \in 1..Len(chunks) :
           /\ i # j
           /\ cgpStatus[i] = "done"
           /\ chunkStatus[j] \in {"issued", "running"}
           /\ cgpStatus[j] = "issued"
           /\ fileStore[predictions[i]["G2"]] = ChunkLines(i, "G2")

====
